---- MODULE Spec2Model ----
(***************************************************************************)
(* Model of the snippetbox web application's request handlers              *)
(* (cmd/web/handlers.go) and helpers (serverError, clientError, notFound,  *)
(* render, decodePostForm).                                                *)
(*                                                                         *)
(* Go strings are sequences of one-character strings, so that trimming,    *)
(* counting, pattern matching and integer parsing are computed.  Opaque    *)
(* messages (flash texts, field error messages, status texts, page names)  *)
(* are TLA+ strings.  One request is handled per action; the variables     *)
(* req, w and events hold the last request, its response writer and the    *)
(* ordered log of the calls the handler made.                              *)
(***************************************************************************)
EXTENDS Integers, Sequences, FiniteSets, TLC

VARIABLES
    snippets,       \* rows of the snippets table, in insertion order
    users,          \* rows of the users table, in insertion order
    session,        \* the session's values: [flash |-> string]
    templateCache,  \* application.templateCache: the set of page names it holds
    req,            \* the request being answered and the outcomes of its collaborators
    w,              \* the http.ResponseWriter of that request
    events          \* the calls made while answering it, in order

vars == <<snippets, users, session, templateCache, req, w, events>>

----------------------------------------------------------------------------
(* Bounds of the model *)

MaxSnippets == 1
MaxUsers == 1

----------------------------------------------------------------------------
(* Strings *)

Rep(c, n) == [i \in 1..n |-> c]

Digits == <<"0", "1", "2", "3", "4", "5", "6", "7", "8", "9">>
DigitSet == {Digits[i] : i \in 1..10}
LowerSet == {"a", "b", "c", "d", "e", "f", "g", "h", "i", "j", "k", "l", "m",
             "n", "o", "p", "q", "r", "s", "t", "u", "v", "w", "x", "y", "z"}
UpperSet == {"A", "B", "C", "D", "E", "F", "G", "H", "I", "J", "K", "L", "M",
             "N", "O", "P", "Q", "R", "S", "T", "U", "V", "W", "X", "Y", "Z"}
AlnumSet == DigitSet \cup LowerSet \cup UpperSet
SpaceSet == {" ", "\t", "\n", "\r"}

DigitVal(c) == (CHOOSE i \in 1..10 : Digits[i] = c) - 1

\* Go's int is 64 bits wide on the build targets of this program: the
\* decimal digits of its largest value, and of the magnitude of its smallest.
MaxIntDigits == <<"9", "2", "2", "3", "3", "7", "2", "0", "3", "6", "8", "5", "4", "7", "7",
                  "5", "8", "0", "7">>
MinIntDigits == <<"9", "2", "2", "3", "3", "7", "2", "0", "3", "6", "8", "5", "4", "7", "7",
                  "5", "8", "0", "8">>

RECURSIVE StripZeros(_)
StripZeros(s) == IF Len(s) > 1 /\ Head(s) = "0" THEN StripZeros(Tail(s)) ELSE s

RECURSIVE DigitsGreater(_, _)
\* a > b for digit sequences of equal length
DigitsGreater(a, b) ==
    IF a = <<>> THEN FALSE
    ELSE IF Head(a) # Head(b) THEN DigitVal(Head(a)) > DigitVal(Head(b))
    ELSE DigitsGreater(Tail(a), Tail(b))

\* the digit sequence a exceeds the limit lim
OutOfRange(a, lim) ==
    LET d == StripZeros(a)
    IN Len(d) > Len(lim) \/ (Len(d) = Len(lim) /\ DigitsGreater(d, lim))

RECURSIVE DigitsVal(_, _)
DigitsVal(s, acc) ==
    IF s = <<>> THEN acc ELSE DigitsVal(Tail(s), acc * 10 + DigitVal(Head(s)))

\* strconv.Atoi: an optional sign followed by at least one decimal digit,
\* within the range of int; anything else is an error and yields 0.
Atoi(s) ==
    LET signed == s # <<>> /\ Head(s) \in {"+", "-"}
        body == IF signed THEN Tail(s) ELSE s
        wellFormed == body # <<>> /\ \A i \in 1..Len(body) : body[i] \in DigitSet
        neg == signed /\ Head(s) = "-"
    IN IF ~wellFormed \/ OutOfRange(body, IF neg THEN MinIntDigits ELSE MaxIntDigits)
       THEN [ok |-> FALSE, val |-> 0]
       ELSE [ok |-> TRUE, val |-> IF neg THEN 0 - DigitsVal(body, 0) ELSE DigitsVal(body, 0)]

RECURSIVE Itoa(_)
\* the %d formatting of a non-negative int
Itoa(n) == IF n < 10 THEN <<Digits[n + 1]>> ELSE Append(Itoa(n \div 10), Digits[(n % 10) + 1])

RECURSIVE TrimLeft(_)
TrimLeft(s) == IF s # <<>> /\ Head(s) \in SpaceSet THEN TrimLeft(Tail(s)) ELSE s

RECURSIVE TrimRight(_)
TrimRight(s) ==
    IF s # <<>> /\ s[Len(s)] \in SpaceSet THEN TrimRight(SubSeq(s, 1, Len(s) - 1)) ELSE s

TrimSpace(s) == TrimRight(TrimLeft(s))

----------------------------------------------------------------------------
(* internal/validator *)

NotBlank(s) == TrimSpace(s) # <<>>

MaxChars(s, n) == Len(s) <= n

MinChars(s, n) == Len(s) >= n

PermittedInt(v, allowed) == v \in allowed

\* The shape EmailRX accepts: a non-empty local part, one "@", and a domain
\* of dot-separated labels of letters, digits and inner hyphens.
LocalSet == AlnumSet \cup {".", "_", "+", "-"}

DomainOK(d) ==
    /\ d # <<>>
    /\ \A i \in 1..Len(d) : d[i] \in AlnumSet \cup {"-", "."}
    /\ d[1] \in AlnumSet
    /\ d[Len(d)] \in AlnumSet
    /\ \A i \in 1..Len(d) : d[i] = "." => d[i - 1] \in AlnumSet /\ d[i + 1] \in AlnumSet

EmailShape(s) ==
    \E i \in 1..Len(s) :
        /\ s[i] = "@"
        /\ i > 1
        /\ \A j \in 1..(i - 1) : s[j] \in LocalSet
        /\ DomainOK(SubSeq(s, i + 1, Len(s)))

\* the compiled pattern, and the strings it matches in full
EmailRX == "EmailRX"
MatchString(rx, s) == rx = EmailRX /\ EmailShape(s)

Matches(s, rx) == MatchString(rx, s)

NoFieldErrors == [k \in {} |-> ""]

\* FieldErrors is a map keyed by field name: a later message for a key
\* replaces the earlier one.
AddFieldError(form, key, message) ==
    [form EXCEPT !.FieldErrors =
        [k \in DOMAIN form.FieldErrors \cup {key} |->
            IF k = key THEN message ELSE form.FieldErrors[k]]]

CheckField(form, ok, key, message) ==
    IF ~ok THEN AddFieldError(form, key, message) ELSE form

Valid(form) == DOMAIN form.FieldErrors = {}

----------------------------------------------------------------------------
(* net/http status codes and texts used by the handlers *)

StatusOK == 200
StatusSeeOther == 303
StatusBadRequest == 400
StatusNotFound == 404
StatusUnprocessableEntity == 422
StatusInternalServerError == 500

StatusText(code) ==
    CASE code = StatusBadRequest -> "Bad Request"
      [] code = StatusNotFound -> "Not Found"
      [] code = StatusInternalServerError -> "Internal Server Error"
      [] OTHER -> ""

----------------------------------------------------------------------------
(* Forms, the template data envelope and the response writer *)

NoForm == [kind |-> "none"]

\* var form snippetCreateForm
ZeroSnippetCreateForm ==
    [kind |-> "snippetCreateForm", Title |-> <<>>, Content |-> <<>>, Expires |-> 0,
     FieldErrors |-> NoFieldErrors]

\* var form userSignupForm
ZeroUserSignupForm ==
    [kind |-> "userSignupForm", Name |-> <<>>, Email |-> <<>>, Password |-> <<>>,
     FieldErrors |-> NoFieldErrors]

ZeroSnippet == [ID |-> 0, Title |-> <<>>, Content |-> <<>>, Expires |-> 0]

ZeroData == [Flash |-> "", Form |-> NoForm, Snippet |-> ZeroSnippet, Snippets |-> <<>>]

TextChunk(text) == [kind |-> "text", text |-> text, data |-> ZeroData]
PageChunk(page, data) == [kind |-> "page", text |-> page, data |-> data]

\* status 0: the header has not been written yet.  header is the live header
\* map, sent the headers as they stood when the status line was written.
NewWriter ==
    [status |-> 0, body |-> <<>>, header |-> [Location |-> <<>>],
     sent |-> [Location |-> <<>>]]

NoEvents == <<>>

Log(c, op, arg) == [c EXCEPT !.events = Append(@, [op |-> op, arg |-> arg])]

\* ResponseWriter.WriteHeader: only the first call sets the status; a later
\* one is superfluous and changes nothing on the wire.
WriteHeader(c, code) ==
    LET c1 == Log(c, "WriteHeader", code)
    IN IF c1.w.status # 0 THEN c1
       ELSE [c1 EXCEPT !.w.status = code, !.w.sent = c1.w.header]

\* ResponseWriter.Write: writes the 200 header first when none was written,
\* then appends to the body.
ResponseWrite(c, chunk) ==
    LET c1 == Log(c, "Write", chunk.kind)
        c2 == IF c1.w.status = 0
              THEN [c1 EXCEPT !.w.status = StatusOK, !.w.sent = c1.w.header]
              ELSE c1
    IN [c2 EXCEPT !.w.body = Append(@, chunk)]

\* http.Error
HttpError(c, text, code) == ResponseWrite(WriteHeader(c, code), TextChunk(text))

\* http.Redirect: sets Location, writes the status, and writes a short body
\* for GET requests only.
HttpRedirect(c, method, url, code) ==
    LET c1 == Log(c, "Redirect", [url |-> url, code |-> code])
        c2 == WriteHeader([c1 EXCEPT !.w.header.Location = url], code)
    IN IF method = "GET" THEN ResponseWrite(c2, TextChunk("See Other")) ELSE c2

----------------------------------------------------------------------------
(* helpers: serverError, clientError, notFound, render, decodePostForm *)

serverError(c, err) ==
    HttpError(Log(Log(c, "serverError", err), "errorLog", err),
              StatusText(StatusInternalServerError), StatusInternalServerError)

clientError(c, status) ==
    HttpError(Log(c, "clientError", status), StatusText(status), status)

notFound(c) == clientError(Log(c, "notFound", ""), StatusNotFound)

\* render writing the status before the template has been executed
renderUnbuffered(c, cache, status, page, data, execErr) ==
    LET c1 == Log(c, "render", [status |-> status, page |-> page, data |-> data])
    IN IF page \notin cache
       THEN serverError(c1, "the template does not exist")
       ELSE LET c2 == WriteHeader(c1, status)
            IN IF execErr
               THEN serverError(c2, "template execution failed")
               ELSE ResponseWrite(c2, PageChunk(page, data))

render(c, cache, status, page, data, execErr) ==
    LET c1 == Log(c, "render", [status |-> status, page |-> page, data |-> data])
    IN IF page \notin cache
       THEN serverError(c1, "the template does not exist")
       ELSE IF execErr
            THEN serverError(c1, "template execution failed")
            ELSE ResponseWrite(WriteHeader(c1, status), PageChunk(page, data))

PointerDsts == {"*snippetCreateForm", "*userSignupForm"}
DstKinds == PointerDsts \cup {"snippetCreateForm", "nil"}

\* form.Decoder.Decode(dst, r.PostForm): a destination that is not a non-nil
\* pointer is an InvalidDecoderError; otherwise every field is bound by its
\* form tag, an empty value leaves an int field at zero, and a value that
\* does not parse as an int leaves it at zero and is reported as an error.
FormDecode(dst, postForm) ==
    IF dst \notin PointerDsts
    THEN [err |-> "InvalidDecoderError", form |-> NoForm]
    ELSE IF dst = "*snippetCreateForm"
    THEN LET n == Atoi(postForm.expires)
             bad == postForm.expires # <<>> /\ ~n.ok
         IN [err |-> IF bad THEN "DecodeErrors" ELSE "",
             form |-> [ZeroSnippetCreateForm EXCEPT
                         !.Title = postForm.title,
                         !.Content = postForm.content,
                         !.Expires = IF bad THEN 0 ELSE n.val]]
    ELSE [err |-> "",
          form |-> [ZeroUserSignupForm EXCEPT
                      !.Name = postForm.name,
                      !.Email = postForm.email,
                      !.Password = postForm.password]]

ZeroOf(dst) ==
    IF dst = "*snippetCreateForm" THEN ZeroSnippetCreateForm
    ELSE IF dst = "*userSignupForm" THEN ZeroUserSignupForm
    ELSE NoForm

\* decodePostForm returning every decoder error to its caller
decodePostFormNoPanic(r, dst) ==
    IF ~r.parseOK
    THEN [kind |-> "error", err |-> "ParseForm", form |-> ZeroOf(dst)]
    ELSE LET d == FormDecode(dst, r.PostForm)
         IN IF d.err # ""
            THEN [kind |-> "error", err |-> d.err, form |-> d.form]
            ELSE [kind |-> "nil", err |-> "", form |-> d.form]

\* kind "nil": returned nil; "error": returned err; "panic": panic(err).
\* form is the destination as the call left it.
decodePostForm(r, dst) ==
    IF ~r.parseOK
    THEN [kind |-> "error", err |-> "ParseForm", form |-> ZeroOf(dst)]
    ELSE LET d == FormDecode(dst, r.PostForm)
         IN IF d.err # ""
            THEN IF d.err = "InvalidDecoderError"
                 THEN [kind |-> "panic", err |-> d.err, form |-> d.form]
                 ELSE [kind |-> "error", err |-> d.err, form |-> d.form]
            ELSE [kind |-> "nil", err |-> "", form |-> d.form]

----------------------------------------------------------------------------
(* internal/models: the snippet and user stores *)

\* Each store call is logged with what it was given and what it returned.

\* SnippetModel.Insert: a new row under the next id, or a store error
SnippetInsert(c, title, content, expires, dbErr) ==
    LET id == IF dbErr THEN 0 ELSE Len(c.snippets) + 1
        err == IF dbErr THEN "store error" ELSE ""
        row == [ID |-> id, Title |-> title, Content |-> content, Expires |-> expires]
        c1 == Log(c, "snippets.Insert", [row |-> row, err |-> err])
    IN [c |-> IF dbErr THEN c1 ELSE [c1 EXCEPT !.snippets = Append(@, row)],
        id |-> id, err |-> err]

\* SnippetModel.Get: the row with this id, ErrNoRecord when there is none
SnippetGet(c, id, dbErr) ==
    LET err == IF dbErr THEN "store error"
               ELSE IF id \in 1..Len(c.snippets) THEN "" ELSE "ErrNoRecord"
        snippet == IF err = "" THEN c.snippets[id] ELSE ZeroSnippet
    IN [c |-> Log(c, "snippets.Get", [id |-> id, snippet |-> snippet, err |-> err]),
        snippet |-> snippet, err |-> err]

\* SnippetModel.Latest
SnippetLatest(c, dbErr) ==
    LET err == IF dbErr THEN "store error" ELSE ""
        rows == IF dbErr THEN <<>> ELSE c.snippets
    IN [c |-> Log(c, "snippets.Latest", [err |-> err]), snippets |-> rows, err |-> err]

\* UserModel.Insert: ErrDuplicateEmail when the email is already stored
UserInsert(c, name, email, password, dbErr) ==
    LET err == IF dbErr THEN "store error"
               ELSE IF \E i \in 1..Len(c.users) : c.users[i].Email = email
                    THEN "ErrDuplicateEmail" ELSE ""
        row == [ID |-> Len(c.users) + 1, Name |-> name, Email |-> email,
                HashedPassword |-> <<"hash">> \o password]
        c1 == Log(c, "user.Insert", [name |-> name, email |-> email,
                                     password |-> password, err |-> err])
    IN [c |-> IF err = "" THEN [c1 EXCEPT !.users = Append(@, row)] ELSE c1, err |-> err]

----------------------------------------------------------------------------
(* the session and the template data envelope *)

\* sessionManager.Put(r.Context(), "flash", value)
SessionPut(c, value) == [Log(c, "Put", value) EXCEPT !.session.flash = value]

\* newTemplateData: the envelope carries the flash message, which is read
\* from the session and cleared there.
newTemplateData(c) ==
    [c |-> [Log(c, "newTemplateData", "") EXCEPT !.session.flash = ""],
     data |-> [ZeroData EXCEPT !.Flash = c.session.flash]]

----------------------------------------------------------------------------
(* cmd/web/handlers.go *)

FlashSnippetCreated == "Snippet successfully created!"
FlashSignedUp == "Your signup was successful. Please log in."
MsgBlank == "This field cannot be blank"
MsgDuplicateEmail == "Email address is already in use"

Home(c, r, cache) ==
    LET q == SnippetLatest(c, r.dbErr)
    IN IF q.err # ""
       THEN serverError(q.c, q.err)
       ELSE LET t == newTemplateData(q.c)
            IN render(t.c, cache, StatusOK, "home.tmpl",
                      [t.data EXCEPT !.Snippets = q.snippets], r.execErr)

\* SnippetView rejecting only negative ids
SnippetViewZeroId(c, r, cache) ==
    LET n == Atoi(r.id)
    IN IF ~n.ok \/ n.val < 0
       THEN notFound(c)
       ELSE LET q == SnippetGet(c, n.val, r.dbErr)
            IN IF q.err # ""
               THEN IF q.err = "ErrNoRecord"
                    THEN notFound(q.c)
                    ELSE serverError(q.c, q.err)
               ELSE LET t == newTemplateData(q.c)
                    IN render(t.c, cache, StatusOK, "view.tmpl",
                              [t.data EXCEPT !.Snippet = q.snippet], r.execErr)

SnippetView(c, r, cache) ==
    LET n == Atoi(r.id)
    IN IF ~n.ok \/ n.val < 1
       THEN notFound(c)
       ELSE LET q == SnippetGet(c, n.val, r.dbErr)
            IN IF q.err # ""
               THEN IF q.err = "ErrNoRecord"
                    THEN notFound(q.c)
                    ELSE serverError(q.c, q.err)
               ELSE LET t == newTemplateData(q.c)
                    IN render(t.c, cache, StatusOK, "view.tmpl",
                              [t.data EXCEPT !.Snippet = q.snippet], r.execErr)

\* form.CheckField(ok, key, message) on the handler's form
Check(st, ok, key, message) ==
    [c |-> Log(st.c, "CheckField", [key |-> key, ok |-> ok]),
     form |-> CheckField(st.form, ok, key, message)]

\* the checks with expires accepted anywhere between 1 and 365
SnippetCreatePostChecksExpiresRange(c, form) ==
    LET s1 == Check([c |-> c, form |-> form], NotBlank(form.Title), "title", MsgBlank)
        s2 == Check(s1, MaxChars(form.Title, 100), "title",
                    "This field cannot be more than 100 characters long")
        s3 == Check(s2, NotBlank(form.Content), "content", MsgBlank)
    IN Check(s3, form.Expires \in 1..365, "expires",
             "This field must equal 1, 7 or 365")

SnippetCreatePostChecks(c, form) ==
    LET s1 == Check([c |-> c, form |-> form], NotBlank(form.Title), "title", MsgBlank)
        s2 == Check(s1, MaxChars(form.Title, 100), "title",
                    "This field cannot be more than 100 characters long")
        s3 == Check(s2, NotBlank(form.Content), "content", MsgBlank)
    IN Check(s3, PermittedInt(form.Expires, {1, 7, 365}), "expires",
             "This field must equal 1, 7 or 365")

\* the handler going on to the insert after re-rendering an invalid form
SnippetCreatePostResolveNoReturn(st, r, cache) ==
    LET c0 == IF ~Valid(st.form)
              THEN LET t == newTemplateData(st.c)
                   IN render(t.c, cache, StatusUnprocessableEntity, "create.tmpl",
                             [t.data EXCEPT !.Form = st.form], r.execErr)
              ELSE st.c
        q == SnippetInsert(c0, st.form.Title, st.form.Content, st.form.Expires, r.dbErr)
    IN IF q.err # ""
       THEN serverError(q.c, q.err)
       ELSE HttpRedirect(SessionPut(q.c, FlashSnippetCreated), r.method,
                         <<"/snippet/view/">> \o Itoa(q.id), StatusSeeOther)

\* the handler redirecting before the flash is put into the session
SnippetCreatePostResolveFlashLate(st, r, cache) ==
    IF ~Valid(st.form)
    THEN LET t == newTemplateData(st.c)
         IN render(t.c, cache, StatusUnprocessableEntity, "create.tmpl",
                   [t.data EXCEPT !.Form = st.form], r.execErr)
    ELSE LET q == SnippetInsert(st.c, st.form.Title, st.form.Content, st.form.Expires,
                                r.dbErr)
         IN IF q.err # ""
            THEN serverError(q.c, q.err)
            ELSE SessionPut(HttpRedirect(q.c, r.method,
                                         <<"/snippet/view/">> \o Itoa(q.id), StatusSeeOther),
                            FlashSnippetCreated)

\* the handler after its validation checks (lines 83-97)
SnippetCreatePostResolve(st, r, cache) ==
    IF ~Valid(st.form)
    THEN LET t == newTemplateData(st.c)
         IN render(t.c, cache, StatusUnprocessableEntity, "create.tmpl",
                   [t.data EXCEPT !.Form = st.form], r.execErr)
    ELSE LET q == SnippetInsert(st.c, st.form.Title, st.form.Content, st.form.Expires,
                                r.dbErr)
         IN IF q.err # ""
            THEN serverError(q.c, q.err)
            ELSE HttpRedirect(SessionPut(q.c, FlashSnippetCreated), r.method,
                              <<"/snippet/view/">> \o Itoa(q.id), StatusSeeOther)

\* what the handler does once decodePostForm has returned d (lines 74-76):
\* a decode error is answered with 400 and the handler goes on.
SnippetCreatePostAfterDecode(c, d) ==
    IF d.kind = "error" THEN clientError(c, StatusBadRequest) ELSE c

SnippetCreatePost(c, r, cache) ==
    LET d == decodePostForm(r, "*snippetCreateForm")
        c1 == Log(c, "decodePostForm", d.kind)
    IN IF d.kind = "panic" THEN Log(c1, "panic", d.err)
       ELSE LET c2 == SnippetCreatePostAfterDecode(c1, d)
            IN SnippetCreatePostResolve(SnippetCreatePostChecks(c2, d.form), r, cache)

SnippetCreate(c, r, cache) ==
    LET t == newTemplateData(c)
    IN render(t.c, cache, StatusOK, "create.tmpl",
              [t.data EXCEPT !.Form = [ZeroSnippetCreateForm EXCEPT !.Expires = 365]],
              r.execErr)

userSignup(c, r, cache) ==
    LET t == newTemplateData(c)
    IN render(t.c, cache, StatusOK, "signup.tmpl",
              [t.data EXCEPT !.Form = ZeroUserSignupForm], r.execErr)

userSignupPostChecks(c, form) ==
    LET s1 == Check([c |-> c, form |-> form], NotBlank(form.Name), "name", MsgBlank)
        s2 == Check(s1, NotBlank(form.Email), "email", MsgBlank)
        s3 == Check(s2, Matches(form.Email, EmailRX), "email",
                    "This field must be a valid email address")
        s4 == Check(s3, NotBlank(form.Password), "password", MsgBlank)
    IN Check(s4, MinChars(form.Password, 8), "password",
             "This field must be at least 8 characters long")

\* the handler's answer to a failed user insert (lines 140-150); the handler
\* goes on after it.
userSignupPostInsertFailed(c, form, err, r, cache) ==
    IF err = "ErrDuplicateEmail"
    THEN LET t == newTemplateData(c)
         IN render(t.c, cache, StatusUnprocessableEntity, "signup.tmpl",
                   [t.data EXCEPT !.Form = AddFieldError(form, "email", MsgDuplicateEmail)],
                   r.execErr)
    ELSE serverError(c, err)

\* the handler after its validation checks (lines 131-153)
userSignupPostResolve(st, r, cache) ==
    IF ~Valid(st.form)
    THEN LET t == newTemplateData(st.c)
         IN render(t.c, cache, StatusUnprocessableEntity, "signup.tmpl",
                   [t.data EXCEPT !.Form = st.form], r.execErr)
    ELSE LET q == UserInsert(st.c, st.form.Name, st.form.Email, st.form.Password, r.dbErr)
             c1 == IF q.err # ""
                   THEN userSignupPostInsertFailed(q.c, st.form, q.err, r, cache)
                   ELSE q.c
         IN HttpRedirect(SessionPut(c1, FlashSignedUp), r.method,
                         <<"/user/login">>, StatusSeeOther)

userSignupPost(c, r, cache) ==
    LET d == decodePostForm(r, "*userSignupForm")
        c1 == Log(c, "decodePostForm", d.kind)
    IN IF d.kind = "panic" THEN Log(c1, "panic", d.err)
       ELSE IF d.kind = "error" THEN clientError(c1, StatusBadRequest)
       ELSE userSignupPostResolve(userSignupPostChecks(c1, d.form), r, cache)

----------------------------------------------------------------------------
(* Requests *)

Pages == {"home.tmpl", "view.tmpl", "create.tmpl", "signup.tmpl"}

MissingPages == {"view.tmpl", "create.tmpl"}

ZeroPostForm ==
    [title |-> <<>>, content |-> <<>>, expires |-> <<>>,
     name |-> <<>>, email |-> <<>>, password |-> <<>>]

ZeroRequest ==
    [handler |-> "", method |-> "", id |-> <<>>, dst |-> "", parseOK |-> TRUE,
     PostForm |-> ZeroPostForm, dbErr |-> FALSE, execErr |-> FALSE]

Titles == {<<>>, <<"A">>}
LongTitle == Rep("t", 101)
Contents == {<<>>, <<"B">>, Rep("c", 401)}
ExpiresInputs == {<<"7">>, <<"9">>, <<"x">>}

Names == {<<" ", " ">>, <<"B", "o", "b">>}
Emails == {<<"a", "@", "b", ".", "c", "o", "m">>,
           <<"n", "o", "t", "-", "a", "n", "-", "e", "m", "a", "i", "l">>}
Passwords == {<<"p", "a", "5", "5", "w", "o", "r", "d">>, <<"s", "h", "o", "r", "t">>}

PathIds == {<<"1">>, <<"2">>, <<"0">>, <<"-", "1">>, <<"a", "b", "c">>, Rep("9", 20)}

SnippetPostForms ==
    {[ZeroPostForm EXCEPT !.title = t, !.content = b, !.expires = e] :
        t \in Titles, b \in Contents, e \in ExpiresInputs}
    \cup {[ZeroPostForm EXCEPT !.title = LongTitle, !.content = <<"B">>, !.expires = <<"7">>]}

\* a body that parses, with the form it carries, or one that ParseForm rejects
Bodies(forms) ==
    {[parseOK |-> TRUE, PostForm |-> pf] : pf \in forms}
    \cup {[parseOK |-> FALSE, PostForm |-> ZeroPostForm]}

\* the collaborators' failures during one request: none, the store call
\* fails, or the template execution fails
Faults == {[dbErr |-> FALSE, execErr |-> FALSE], [dbErr |-> TRUE, execErr |-> FALSE],
           [dbErr |-> FALSE, execErr |-> TRUE]}

SignupPostForms ==
    {[ZeroPostForm EXCEPT !.name = n, !.email = e, !.password = p] :
        n \in Names, e \in Emails, p \in Passwords}

\* the state a handler starts from: a fresh response writer and an empty log
Ctx == [w |-> NewWriter, session |-> session, snippets |-> snippets, users |-> users,
        events |-> NoEvents]

\* the request has been answered
Commit(r, c) ==
    /\ Len(c.snippets) <= MaxSnippets
    /\ Len(c.users) <= MaxUsers
    /\ req' = r
    /\ w' = c.w
    /\ events' = c.events
    /\ session' = c.session
    /\ snippets' = c.snippets
    /\ users' = c.users
    /\ UNCHANGED templateCache

HomeReq ==
    \E f \in Faults :
        LET r == [ZeroRequest EXCEPT !.handler = "Home", !.method = "GET",
                                     !.dbErr = f.dbErr, !.execErr = f.execErr]
        IN Commit(r, Home(Ctx, r, templateCache))

SnippetViewReq ==
    \E id \in PathIds, f \in Faults :
        LET r == [ZeroRequest EXCEPT !.handler = "SnippetView", !.method = "GET", !.id = id,
                                     !.dbErr = f.dbErr, !.execErr = f.execErr]
        IN Commit(r, SnippetView(Ctx, r, templateCache))

SnippetCreateReq ==
    \E execErr \in BOOLEAN :
        LET r == [ZeroRequest EXCEPT !.handler = "SnippetCreate", !.method = "GET",
                                     !.execErr = execErr]
        IN Commit(r, SnippetCreate(Ctx, r, templateCache))

SnippetCreatePostReq ==
    \E b \in Bodies(SnippetPostForms), f \in Faults :
        LET r == [ZeroRequest EXCEPT !.handler = "SnippetCreatePost", !.method = "POST",
                                     !.dst = "*snippetCreateForm",
                                     !.parseOK = b.parseOK, !.PostForm = b.PostForm,
                                     !.dbErr = f.dbErr, !.execErr = f.execErr]
        IN Commit(r, SnippetCreatePost(Ctx, r, templateCache))

userSignupReq ==
    \E execErr \in BOOLEAN :
        LET r == [ZeroRequest EXCEPT !.handler = "userSignup", !.method = "GET",
                                     !.execErr = execErr]
        IN Commit(r, userSignup(Ctx, r, templateCache))

userSignupPostReq ==
    \E b \in Bodies(SignupPostForms), f \in Faults :
        LET r == [ZeroRequest EXCEPT !.handler = "userSignupPost", !.method = "POST",
                                     !.dst = "*userSignupForm",
                                     !.parseOK = b.parseOK, !.PostForm = b.PostForm,
                                     !.dbErr = f.dbErr, !.execErr = f.execErr]
        IN Commit(r, userSignupPost(Ctx, r, templateCache))

\* The template cache is built once at startup from the page files found:
\* every page, or every page but one of those in MissingPages.
Init ==
    /\ snippets = <<>>
    /\ users = <<>>
    /\ session = [flash |-> ""]
    /\ templateCache \in {Pages} \cup {Pages \ {p} : p \in MissingPages}
    /\ req = ZeroRequest
    /\ w = NewWriter
    /\ events = NoEvents

Next ==
    \/ HomeReq
    \/ SnippetViewReq
    \/ SnippetCreateReq
    \/ SnippetCreatePostReq
    \/ userSignupReq
    \/ userSignupPostReq

Spec == Init /\ [][Next]_vars

----------------------------------------------------------------------------
(* decodePostForm on its own, over every destination a caller can pass *)

DecodeCall ==
    \E dst \in DstKinds, b \in Bodies(SnippetPostForms \cup SignupPostForms) :
        LET r == [ZeroRequest EXCEPT !.handler = "decodePostForm", !.method = "POST",
                                     !.dst = dst, !.parseOK = b.parseOK,
                                     !.PostForm = b.PostForm]
            d == decodePostForm(r, dst)
        IN /\ req' = r
           /\ events' = <<[op |-> "decodePostForm", arg |-> d]>>
           /\ UNCHANGED <<snippets, users, session, templateCache, w>>

NextDecode == DecodeCall

SpecDecode == Init /\ [][NextDecode]_vars

----------------------------------------------------------------------------
(* Observations of the last request *)

EventIdx(op) == {i \in 1..Len(events) : events[i].op = op}
Called(op) == EventIdx(op) # {}
Calls(op) == Cardinality(EventIdx(op))
FirstIdx(op) == CHOOSE i \in EventIdx(op) : \A j \in EventIdx(op) : i <= j
ArgOf(op) == events[FirstIdx(op)].arg

SubmissionHandlers == {"SnippetCreatePost", "userSignupPost"}
AllHandlers == {"Home", "SnippetView", "SnippetCreate", "SnippetCreatePost",
                "userSignup", "userSignupPost"}

\* decodePostForm returned nil / returned an error to the handler
Decoded == req.handler \in SubmissionHandlers /\ Called("decodePostForm")
           /\ ArgOf("decodePostForm") = "nil"
DecodeFailed == req.handler \in SubmissionHandlers /\ Called("decodePostForm")
                /\ ArgOf("decodePostForm") = "error"

AllChecksPassed ==
    Called("CheckField") /\ \A i \in EventIdx("CheckField") : events[i].arg.ok
SomeCheckFailed == \E i \in EventIdx("CheckField") : ~events[i].arg.ok
FailedKeys == {events[i].arg.key : i \in {j \in EventIdx("CheckField") : ~events[j].arg.ok}}

OriginPage == IF req.handler = "SnippetCreatePost" THEN "create.tmpl" ELSE "signup.tmpl"
InsertOp == IF req.handler = "SnippetCreatePost" THEN "snippets.Insert" ELSE "user.Insert"

\* the template lookup and execution of this request succeed
RenderSucceeds(page) == page \in templateCache /\ ~req.execErr

ServerErrorBody == <<TextChunk("Internal Server Error")>>

\* the form's fields are the submitted values
FieldsAsSubmitted(form) ==
    IF req.handler = "SnippetCreatePost"
    THEN /\ form.Title = req.PostForm.title
         /\ form.Content = req.PostForm.content
         /\ form.Expires = Atoi(req.PostForm.expires).val
    ELSE /\ form.Name = req.PostForm.name
         /\ form.Email = req.PostForm.email
         /\ form.Password = req.PostForm.password

----------------------------------------------------------------------------
(* Claims *)

\* C1: in userSignupPost, when the form decodes, passes every check and the
\* user insert fails with ErrDuplicateEmail, the signup page is re-rendered
\* at 422 with "Email address is already in use" on "email", and no flash
\* value is written and no redirect is issued in that request.
C1_DuplicateEmailNoFlashNoRedirect ==
    (/\ req.handler = "userSignupPost"
     /\ Decoded
     /\ AllChecksPassed
     /\ Called("user.Insert")
     /\ ArgOf("user.Insert").err = "ErrDuplicateEmail")
    => /\ Calls("render") = 1
       /\ ArgOf("render").status = StatusUnprocessableEntity
       /\ ArgOf("render").page = "signup.tmpl"
       /\ "email" \in DOMAIN ArgOf("render").data.Form.FieldErrors
       /\ ArgOf("render").data.Form.FieldErrors["email"] = MsgDuplicateEmail
       /\ ~Called("Put")
       /\ ~Called("Redirect")

\* C2: in both submission handlers, when decodePostForm returns an error the
\* handler answers 400 and terminates: no validation check runs, no page is
\* rendered, no insert is invoked, no flash is written, no redirect issued.
C2_DecodeErrorTerminates ==
    DecodeFailed
    => /\ Calls("clientError") = 1
       /\ ArgOf("clientError") = StatusBadRequest
       /\ w.status = StatusBadRequest
       /\ w.body = <<TextChunk("Bad Request")>>
       /\ ~Called("CheckField")
       /\ ~Called("render")
       /\ ~Called(InsertOp)
       /\ ~Called("Put")
       /\ ~Called("Redirect")

\* the submission of C3: blank title, 401-character content, expires=9
C3_Case ==
    /\ req.handler = "SnippetCreatePost"
    /\ Decoded
    /\ ~NotBlank(req.PostForm.title)
    /\ Len(req.PostForm.content) = 401
    /\ req.PostForm.expires = <<"9">>
    /\ Calls("CheckField") = 4

C4_InvalidFormRerendered ==
    (Decoded /\ SomeCheckFailed)
    => /\ ~Called(InsertOp)
       /\ ~Called("Put")
       /\ ~Called("Redirect")
       /\ Calls("render") = 1
       /\ ArgOf("render").status = StatusUnprocessableEntity
       /\ ArgOf("render").page = OriginPage
       /\ FieldsAsSubmitted(ArgOf("render").data.Form)
       /\ DOMAIN ArgOf("render").data.Form.FieldErrors = FailedKeys
       /\ IF RenderSucceeds(OriginPage)
          THEN /\ w.status = StatusUnprocessableEntity
               /\ w.body = <<PageChunk(OriginPage, ArgOf("render").data)>>
          ELSE /\ w.status = StatusInternalServerError
               /\ w.body = ServerErrorBody

C4_Witness ==
    /\ Decoded
    /\ SomeCheckFailed
    /\ req.handler = "userSignupPost"
    /\ w.status = StatusUnprocessableEntity
    /\ users # <<>>

\* C5: a snippet-create submission that decodes and passes every check
\* invokes the store insert exactly once with the submitted title, content
\* and expires; when the insert succeeds with id N the flash is put into the
\* session before the response, and the response is a 303 redirect to
\* /snippet/view/N with no page rendered.
C5_ValidSnippetInsertedAndRedirected ==
    (req.handler = "SnippetCreatePost" /\ Decoded /\ AllChecksPassed)
    => /\ Calls("snippets.Insert") = 1
       /\ FieldsAsSubmitted(ArgOf("snippets.Insert").row)
       /\ ArgOf("snippets.Insert").err = ""
          => /\ Calls("Put") = 1
             /\ ArgOf("Put") = FlashSnippetCreated
             /\ session.flash = FlashSnippetCreated
             /\ Calls("WriteHeader") = 1
             /\ FirstIdx("Put") < FirstIdx("WriteHeader")
             /\ FirstIdx("snippets.Insert") < FirstIdx("Put")
             /\ w.status = StatusSeeOther
             /\ Head(w.sent.Location) = "/snippet/view/"
             /\ Atoi(Tail(w.sent.Location)) = [ok |-> TRUE, val |-> ArgOf("snippets.Insert").row.ID]
             /\ snippets[ArgOf("snippets.Insert").row.ID] = ArgOf("snippets.Insert").row
             /\ ~Called("render")
             /\ w.body = <<>>

C5_Witness ==
    /\ req.handler = "SnippetCreatePost"
    /\ AllChecksPassed
    /\ w.status = StatusSeeOther
    /\ req.PostForm.title = <<"A">>
    /\ req.PostForm.content = <<"B">>
    /\ req.PostForm.expires = <<"7">>

\* C6: in both submission handlers, when the store insert fails with an error
\* other than ErrDuplicateEmail the request is answered only by serverError
\* (500, generic body): no flash is written, no redirect issued, no page
\* rendered; and a flash value is written only in a request whose insert
\* succeeded.
C6_StoreFailureOnlyServerError ==
    /\ (/\ req.handler \in SubmissionHandlers
        /\ Called(InsertOp)
        /\ ArgOf(InsertOp).err \notin {"", "ErrDuplicateEmail"})
       => /\ Calls("serverError") = 1
          /\ w.status = StatusInternalServerError
          /\ w.body = ServerErrorBody
          /\ ~Called("Put")
          /\ ~Called("Redirect")
          /\ ~Called("render")
    /\ (req.handler \in SubmissionHandlers /\ Called("Put"))
       => (Called(InsertOp) /\ ArgOf(InsertOp).err = "")

\* C7: render writes the requested status and the page body only after the
\* template lookup succeeded and the template was executed without error;
\* when the page has no template in the cache or execution fails, neither
\* the page nor the requested status is written and the only response of
\* the call is the 500 server error.
C7_RenderBuffered ==
    \A i \in EventIdx("render") :
        LET a == events[i].arg
        IN IF RenderSucceeds(a.page)
           THEN /\ Len(events) >= i + 2
                /\ events[i + 1].op = "WriteHeader"
                /\ events[i + 1].arg = a.status
                /\ events[i + 2].op = "Write"
                /\ events[i + 2].arg = "page"
                /\ \E k \in 1..Len(w.body) : w.body[k] = PageChunk(a.page, a.data)
           ELSE /\ Len(events) >= i + 4
                /\ events[i + 1].op = "serverError"
                /\ events[i + 2].op = "errorLog"
                /\ events[i + 3].op = "WriteHeader"
                /\ events[i + 3].arg = StatusInternalServerError
                /\ events[i + 4].op = "Write"
                /\ events[i + 4].arg = "text"
                /\ \A k \in 1..Len(w.body) : w.body[k].kind # "page"
                /\ \A j \in EventIdx("WriteHeader") : j > i => events[j].arg # a.status
                /\ (\A j \in EventIdx("WriteHeader") : j > i)
                   => (w.status = StatusInternalServerError /\ w.body = ServerErrorBody)

C7_Witness ==
    /\ Called("render")
    /\ ~RenderSucceeds(ArgOf("render").page)
    /\ ArgOf("render").status = StatusUnprocessableEntity
    /\ w.status = StatusInternalServerError

\* the outcome of a decodePostForm call made on its own
DecodeOutcome == events[1].arg

DecodeCalled == req.handler = "decodePostForm" /\ Len(events) = 1

\* the destination is not a non-nil pointer to a form
InvalidDst == req.dst \notin {"*snippetCreateForm", "*userSignupForm"}

\* a submitted value that cannot be bound to its field
UnbindableValue ==
    /\ req.dst = "*snippetCreateForm"
    /\ req.PostForm.expires # <<>>
    /\ \E k \in 1..Len(req.PostForm.expires) : req.PostForm.expires[k] \notin DigitSet

\* C8: decodePostForm panics exactly when the decoder reports an
\* InvalidDecoderError (never returning it as an ordinary error), returns
\* every other failure of parsing or decoding as an error without
\* panicking, and returns nil on a successful decode.
C8_DecodeFailuresDistinguished ==
    DecodeCalled
    => /\ DecodeOutcome.kind = "panic" <=> (req.parseOK /\ InvalidDst)
       /\ DecodeOutcome.kind = "panic" => DecodeOutcome.err = "InvalidDecoderError"
       /\ DecodeOutcome.kind = "error" <=> (~req.parseOK \/ (~InvalidDst /\ UnbindableValue))
       /\ DecodeOutcome.kind = "error" => DecodeOutcome.err # "InvalidDecoderError"
       /\ DecodeOutcome.kind = "nil" <=> (req.parseOK /\ ~InvalidDst /\ ~UnbindableValue)
       /\ DecodeOutcome.kind \in {"nil", "error", "panic"}

C8_Witness ==
    /\ DecodeCalled
    /\ DecodeOutcome.kind = "panic"
    /\ req.dst = "nil"
    /\ req.PostForm.expires = <<"x">>

\* the path id is not an integer or is less than 1
BadPathId == ~Atoi(req.id).ok \/ Atoi(req.id).val < 1

\* C9: SnippetView answers a path id that is not an integer or is below 1
\* with 404 without querying the store, a lookup reporting ErrNoRecord with
\* 404, any other store error with the 500 server error, and renders the
\* view page at 200 only when the store returned a snippet; each request
\* gets exactly one of these responses.
C9_SnippetViewOutcomes ==
    req.handler = "SnippetView"
    => /\ Calls("WriteHeader") = 1
       /\ Len(w.body) = 1
       /\ w.status \in {StatusOK, StatusNotFound, StatusInternalServerError}
       /\ BadPathId => (w.status = StatusNotFound /\ ~Called("snippets.Get"))
       /\ ~BadPathId => Calls("snippets.Get") = 1
       /\ Called("snippets.Get")
          => /\ ArgOf("snippets.Get").err = "ErrNoRecord" => w.status = StatusNotFound
             /\ ArgOf("snippets.Get").err = "store error"
                => (w.status = StatusInternalServerError /\ w.body = ServerErrorBody)
             /\ ArgOf("snippets.Get").err = ""
                => /\ Calls("render") = 1
                   /\ ArgOf("render").data.Snippet = ArgOf("snippets.Get").snippet
                   /\ w.status = StatusOK <=> RenderSucceeds("view.tmpl")
       /\ w.status = StatusNotFound => (w.body = <<TextChunk("Not Found")>> /\ ~Called("render"))
       /\ w.status = StatusOK
          => /\ Called("snippets.Get")
             /\ ArgOf("snippets.Get").err = ""
             /\ ArgOf("snippets.Get").snippet \in {snippets[k] : k \in 1..Len(snippets)}
             /\ w.body = <<PageChunk("view.tmpl", ArgOf("render").data)>>

C9_Witness ==
    /\ req.handler = "SnippetView"
    /\ w.status = StatusOK
    /\ req.id = <<"1">>

\* the responders invoked for this request: clientError, serverError,
\* http.Redirect, and a render that wrote its page
ResponderCalls ==
    Calls("clientError") + Calls("serverError") + Calls("Redirect")
    + Cardinality({i \in EventIdx("Write") : events[i].arg = "page"})

\* C10: in every handler each request invokes exactly one responder: once a
\* status has been written no second status or body is written, and every
\* request ends with exactly one response.
C10_ExactlyOneResponse ==
    req.handler \in AllHandlers
    => /\ ResponderCalls = 1
       /\ Calls("WriteHeader") = 1
       /\ Calls("Write") <= 1

====
